---- MODULE Spec2Model ----
(***************************************************************************)
(* webru: a thin wrapper around the browser's DOM and scheduler.           *)
(*                                                                         *)
(* The model has two parts.  The document part holds the host document     *)
(* (elements created, their class names, the children of <body>) and the   *)
(* position of a running *_inside_vec loop.  The scheduler part holds the  *)
(* host's timer registrations, the clock, the closures handed to the host  *)
(* and the Timeout / Interval handles returned by start.                   *)
(*                                                                         *)
(* The host is single threaded: DOM calls of the program and callbacks     *)
(* dispatched by the event loop never run while a wrapper call is on the   *)
(* stack, so every action other than the loop's own steps is guarded by    *)
(* mpc = "idle".                                                           *)
(***************************************************************************)
EXTENDS Naturals, Integers, Sequences, FiniteSets, TLC

\* ------------------------------------------------------------------ bounds

MaxElems == 3      \* elements the program creates
MaxCalls == 2      \* set_timeout / set_interval calls that reach the host
MaxTime  == 4      \* the host clock runs over 0..MaxTime
MaxDelay == 2      \* delays and intervals passed to the scheduler
MaxClones == 1     \* copies made of Timeout handles

Elems    == 1..MaxElems
Classes  == {"a", "b"}
NoClass  == ""

\* A query-all request is get_elements_by_classname(cls) or
\* query_selector_all(sel), a selector being ".cls" (valid) or malformed;
\* NoQuery stands for no call made yet.
NoQuery == [kind |-> "none", cls |-> NoClass, valid |-> TRUE]

\* Values of the id attribute; NoId is the attribute of a new element.
Ids  == {"x", "y"}
NoId == ""

VARIABLES
    window,     \* TRUE in a browser page, FALSE outside the web (node.js)
    created,    \* number of elements created so far: elements 1..created
    className,  \* className[e]: the class attribute of element e
    doc,        \* children of <body>, in document order
    mpc,        \* position of the running *_inside_vec call: "idle" | "loop"
    mq,         \* the query of the running / last *_inside_vec call
    i,          \* the loop's index
    vec,        \* the loop's vector
    ret,        \* value returned by the last *_inside_vec call
    probes,     \* indices passed to item() by the running / last *_inside_vec call
    queries,    \* host queries issued by the running / last *_inside_vec call
    elemId,     \* elemId[e]: the id attribute of element e
    lookup,     \* the last single-result call: its name, argument and result
    outcome,    \* how the last wrapper call ended: "none" | "ok" | "err" | "panic"
    failure,    \* the host failure the last wrapper call met: "none" |
                \* "no_window" | "invalid_tag" | "invalid_selector" | "refused"
    now,        \* host clock
    nextId,     \* next identifier the host scheduler issues
    regs,       \* host registrations by identifier
    closures,   \* closures[k]: storage of the k-th handler wrapped
    invoked,    \* invoked[k]: times the k-th handler ran
    handles,    \* Timeout / Interval values returned by start
    stops,      \* stops[h]: stop calls made on handle h: "never" | "once" | "again"
    cancels,    \* cancels[h]: host calls issued by the last stop on handle h
    by          \* by[k]: the function whose call wrapped the k-th handler

domVars   == <<created, className, doc, mpc, mq, i, vec, ret, probes, queries, elemId,
               lookup>>
timerVars == <<now, nextId, regs, closures, invoked, handles, stops, cancels,
               by>>
vars      == <<window, outcome, failure, domVars, timerVars>>

\* ------------------------------------------------------------ host document

Range(s) == {s[k] : k \in 1..Len(s)}

\* Elements of the document carrying class c, in document order.
Matching(d, cn, c) == SelectSeq(d, LAMBDA e : cn[e] = c)

\* Values holding elements.  An HtmlCollection is live: it reads the
\* document whenever it is indexed.  A NodeList from querySelectorAll is a
\* static list, and a Vec owns its items.
HtmlCollection(c) == [kind |-> "HtmlCollection", cls |-> c, items |-> <<>>]
NodeList(s)       == [kind |-> "NodeList", cls |-> NoClass, items |-> s]
Vec(s)            == [kind |-> "Vec", cls |-> NoClass, items |-> s]

Contents(h) ==
    IF h.kind = "HtmlCollection"
      THEN Matching(doc, className, h.cls)
      ELSE h.items

\* collection.item(i): index from 0, None when i >= length.
None    == [some |-> FALSE, val |-> 0]
Some(x) == [some |-> TRUE, val |-> x]

\* No single-result call made yet.
NoLookup == [op |-> "none", arg |-> [kind |-> "none", name |-> ""], res |-> None]

item(h, n) == IF n < Len(Contents(h)) THEN Some(Contents(h)[n + 1]) ELSE None

\* ---------------------------------------------------------------- selectors

\* document(): window().unwrap().document().unwrap()
document == window

\* document().get_elements_by_class_name(classname)
get_elements_by_classname(c) == HtmlCollection(c)

\* query_selector_all: Ok(NodeList) or Err for a malformed selector, unwrapped.
query_selector_all(q) ==
    IF q.valid
      THEN [ok |-> TRUE, val |-> NodeList(Matching(doc, className, q.cls))]
      ELSE [ok |-> FALSE, val |-> NodeList(<<>>)]

\* A selector passed to query_selector: "#name", ".name" or malformed.
Selectors ==
    {[kind |-> "id", name |-> x] : x \in Ids}
      \cup {[kind |-> "class", name |-> c] : c \in Classes}
      \cup {[kind |-> "bad", name |-> ""]}

\* Elements of the document that selector sel matches, in document order.
Selected(sel) ==
    SelectSeq(doc, LAMBDA e : IF sel.kind = "id" THEN elemId[e] = sel.name
                              ELSE className[e] = sel.name)

\* The host's getElementById / querySelector return the first match in
\* document order, or null.
First(s) == IF s = <<>> THEN None ELSE Some(s[1])

\* get_element_by_id(id): document().get_element_by_id(id)
get_element_by_id(id) ==
    IF ~document
      THEN [ok |-> FALSE, val |-> None]
      ELSE [ok |-> TRUE, val |-> First(Selected([kind |-> "id", name |-> id]))]

\* unwrap_or(None) in place of unwrap: a malformed selector finds nothing.
query_selector_OrNone(sel) ==
    IF ~document
      THEN [ok |-> FALSE, val |-> None]
      ELSE [ok |-> TRUE,
            val |-> IF sel.kind = "bad" THEN None ELSE First(Selected(sel))]

\* The Option unwrapped as well: no match is a failure.
query_selector_Expect(sel) ==
    IF ~document \/ sel.kind = "bad" \/ Selected(sel) = <<>>
      THEN [ok |-> FALSE, val |-> None]
      ELSE [ok |-> TRUE, val |-> First(Selected(sel))]

\* query_selector(selector): document().query_selector(selector).unwrap()
query_selector(sel) ==
    IF ~document \/ sel.kind = "bad"
      THEN [ok |-> FALSE, val |-> None]
      ELSE [ok |-> TRUE, val |-> First(Selected(sel))]

\* prompt(msg): window().unwrap().prompt_with_message(msg).unwrap(); the user
\* clicks "cancel" or types a text, 1 standing for the text typed.
prompt(user) ==
    IF ~window
      THEN [ok |-> FALSE, val |-> None]
      ELSE [ok |-> TRUE, val |-> IF user = "cancel" THEN None ELSE Some(1)]

\* The collection a loop iteration obtains: the query is issued again on
\* every evaluation of the loop condition.
Collection(q) ==
    IF q.kind = "classname"
      THEN [ok |-> TRUE, val |-> get_elements_by_classname(q.cls)]
      ELSE query_selector_all(q)

\* The loop begun at index 1 instead of 0.
InsideVecBegin_FromOne(q) ==
    /\ mpc = "idle"
    /\ mpc' = "loop"
    /\ mq' = q
    /\ i' = 1
    /\ vec' = <<>>
    /\ outcome' = "none"
    /\ UNCHANGED <<ret, created, className, doc>>

\* The vector kept from the previous call instead of starting empty.
InsideVecBegin_Stale(q) ==
    /\ mpc = "idle"
    /\ mpc' = "loop"
    /\ mq' = q
    /\ i' = 0
    /\ vec' = Contents(ret)
    /\ outcome' = "none"
    /\ UNCHANGED <<ret, created, className, doc>>

\* let mut i = 0; let mut vec = Vec::new();
InsideVecBegin(q) ==
    /\ mpc = "idle"
    /\ mpc' = "loop"
    /\ mq' = q
    /\ i' = 0
    /\ vec' = <<>>
    /\ outcome' = "none"
    /\ UNCHANGED <<ret, created, className, doc>>

\* The first item unwrapped: an absent item at index 0 is a failure.
InsideVecStep_Unwrap ==
    /\ mpc = "loop"
    /\ IF ~document \/ ~Collection(mq).ok
         THEN /\ mpc' = "idle"
              /\ outcome' = "panic"
              /\ i' = 0
              /\ vec' = <<>>
              /\ UNCHANGED ret
         ELSE LET probe == item(Collection(mq).val, i) IN
              IF probe.some
                THEN /\ vec' = Append(vec, probe.val)
                     /\ i' = i + 1
                     /\ UNCHANGED <<mpc, ret, outcome>>
                ELSE /\ ret' = IF i = 0 THEN ret ELSE Vec(vec)
                     /\ mpc' = "idle"
                     /\ outcome' = IF i = 0 THEN "panic" ELSE "ok"
                     /\ i' = 0
                     /\ vec' = <<>>
    /\ UNCHANGED <<mq, created, className, doc>>

\* The host collection handed back instead of the vector filled from it.
InsideVecStep_Handle ==
    /\ mpc = "loop"
    /\ IF ~document \/ ~Collection(mq).ok
         THEN /\ mpc' = "idle"
              /\ outcome' = "panic"
              /\ i' = 0
              /\ vec' = <<>>
              /\ UNCHANGED ret
         ELSE LET probe == item(Collection(mq).val, i) IN
              IF probe.some
                THEN /\ vec' = Append(vec, probe.val)
                     /\ i' = i + 1
                     /\ UNCHANGED <<mpc, ret, outcome>>
                ELSE /\ ret' = HtmlCollection(mq.cls)
                     /\ mpc' = "idle"
                     /\ outcome' = "ok"
                     /\ i' = 0
                     /\ vec' = <<>>
    /\ UNCHANGED <<mq, created, className, doc>>

\* The index advanced by two after each push.
InsideVecStep_Stride ==
    /\ mpc = "loop"
    /\ IF ~document \/ ~Collection(mq).ok
         THEN /\ mpc' = "idle"
              /\ outcome' = "panic"
              /\ i' = 0
              /\ vec' = <<>>
              /\ UNCHANGED ret
         ELSE LET probe == item(Collection(mq).val, i) IN
              IF probe.some
                THEN /\ vec' = Append(vec, probe.val)
                     /\ i' = i + 2
                     /\ UNCHANGED <<mpc, ret, outcome>>
                ELSE /\ ret' = Vec(vec)
                     /\ mpc' = "idle"
                     /\ outcome' = "ok"
                     /\ i' = 0
                     /\ vec' = <<>>
    /\ UNCHANGED <<mq, created, className, doc>>

\* One evaluation of `while let Some(element) = <query>.item(i)` and, when it
\* matches, of the body { vec.push(element); i += 1; }; otherwise `vec` is
\* returned and the call's locals are gone.  Without a window, or with a
\* malformed selector, the query panics.
InsideVecStep ==
    /\ mpc = "loop"
    /\ IF ~document \/ ~Collection(mq).ok
         THEN /\ mpc' = "idle"
              /\ outcome' = "panic"
              /\ i' = 0
              /\ vec' = <<>>
              /\ UNCHANGED ret
         ELSE LET probe == item(Collection(mq).val, i) IN
              IF probe.some
                THEN /\ vec' = Append(vec, probe.val)
                     /\ i' = i + 1
                     /\ UNCHANGED <<mpc, ret, outcome>>
                ELSE /\ ret' = Vec(vec)
                     /\ mpc' = "idle"
                     /\ outcome' = "ok"
                     /\ i' = 0
                     /\ vec' = <<>>
    /\ UNCHANGED <<mq, created, className, doc>>

get_elements_by_classname_inside_vec ==
    /\ \E c \in Classes :
         InsideVecBegin([kind |-> "classname", cls |-> c, valid |-> TRUE])
    /\ probes' = <<>>
    /\ queries' = 0
    /\ failure' = "none"
    /\ UNCHANGED <<window, elemId, lookup, timerVars>>

query_selector_all_inside_vec ==
    /\ \E c \in Classes, v \in BOOLEAN :
         InsideVecBegin([kind |-> "selector", cls |-> c, valid |-> v])
    /\ probes' = <<>>
    /\ queries' = 0
    /\ failure' = "none"
    /\ UNCHANGED <<window, elemId, lookup, timerVars>>

\* The failure the host answers a query with, if any.
QueryFailure(q) ==
    IF ~document THEN "no_window"
    ELSE IF ~Collection(q).ok THEN "invalid_selector"
    ELSE "none"

\* The collection queried once, before the first probe, and the one handle
\* read at every index.
InsideVecLoop_QueryOnce ==
    /\ InsideVecStep
    /\ failure' = QueryFailure(mq)
    /\ probes' = IF QueryFailure(mq) = "none" THEN Append(probes, i) ELSE probes
    /\ queries' = IF document /\ i = 0 THEN queries + 1 ELSE queries
    /\ UNCHANGED <<window, elemId, lookup, timerVars>>

\* One evaluation of the loop condition: the query inside it is issued anew,
\* get_elements_by_classname(classname) / query_selector_all(selector), and
\* the collection it answers with is probed at index i.
InsideVecLoop ==
    /\ InsideVecStep
    /\ failure' = QueryFailure(mq)
    /\ probes' = IF QueryFailure(mq) = "none" THEN Append(probes, i) ELSE probes
    /\ queries' = IF document THEN queries + 1 ELSE queries
    /\ UNCHANGED <<window, elemId, lookup, timerVars>>

\* ------------------------------------------------- the program's DOM calls

\* create_element followed by an insertion of the new element.
create_element_Inserting ==
    /\ mpc = "idle"
    /\ created < MaxElems
    /\ \E valid \in BOOLEAN :
         /\ failure' = IF ~document THEN "no_window"
                       ELSE IF ~valid THEN "invalid_tag"
                       ELSE "none"
         /\ IF document /\ valid
              THEN /\ created' = created + 1
                   /\ doc' = Append(doc, created + 1)
                   /\ outcome' = "ok"
              ELSE /\ outcome' = "panic"
                   /\ UNCHANGED <<created, doc>>
    /\ UNCHANGED <<window, className, mpc, mq, i, vec, ret, probes, queries, elemId,
                   lookup, timerVars>>

\* create_element(element_name): document().create_element(name).unwrap(), a
\* new element that is not in the document; the host refuses a name that is
\* not a valid tag name.
create_element ==
    /\ mpc = "idle"
    /\ created < MaxElems
    /\ \E valid \in BOOLEAN :
         /\ failure' = IF ~document THEN "no_window"
                       ELSE IF ~valid THEN "invalid_tag"
                       ELSE "none"
         /\ IF document /\ valid
              THEN /\ created' = created + 1
                   /\ outcome' = "ok"
              ELSE /\ outcome' = "panic"
                   /\ UNCHANGED created
    /\ UNCHANGED <<window, className, doc, mpc, mq, i, vec, ret, probes, queries, elemId,
                   lookup, timerVars>>

\* element.set_class_name(c) on an element the program holds.
set_class_name ==
    /\ mpc = "idle"
    /\ \E e \in 1..created, c \in Classes :
         /\ className[e] # c
         /\ className' = [className EXCEPT ![e] = c]
    /\ UNCHANGED <<window, outcome, failure, created, doc, mpc, mq, i, vec, ret,
                   probes, queries, elemId, lookup, timerVars>>

Without(s, e) == SelectSeq(s, LAMBDA x : x # e)

\* body().append_child(&e): e becomes the last child of <body> (an element
\* already in the document is moved).
append_child ==
    /\ mpc = "idle"
    /\ \E e \in 1..created :
         /\ doc # Append(Without(doc, e), e)
         /\ doc' = Append(Without(doc, e), e)
    /\ UNCHANGED <<window, outcome, failure, created, className, mpc, mq, i, vec,
                   ret, probes, queries, elemId, lookup, timerVars>>

\* element.remove(): e leaves the document.
remove ==
    /\ mpc = "idle"
    /\ \E e \in Range(doc) : doc' = Without(doc, e)
    /\ UNCHANGED <<window, outcome, failure, created, className, mpc, mq, i, vec,
                   ret, probes, queries, elemId, lookup, timerVars>>

\* element.set_id(x) on an element the program holds.
set_id ==
    /\ mpc = "idle"
    /\ \E e \in 1..created, x \in Ids :
         /\ elemId[e] # x
         /\ elemId' = [elemId EXCEPT ![e] = x]
    /\ UNCHANGED <<window, outcome, failure, created, className, doc, mpc, mq, i,
                   vec, ret, probes, queries, lookup, timerVars>>

\* A single-result call: its result, if it returns, is what the caller gets.
Looked(op, arg, r, fail) ==
    /\ mpc = "idle"
    /\ lookup' = [op |-> op, arg |-> arg, res |-> r.val]
    /\ outcome' = IF r.ok THEN "ok" ELSE "panic"
    /\ failure' = fail
    /\ UNCHANGED <<window, created, className, doc, mpc, mq, i, vec, ret, probes, queries,
                   elemId, timerVars>>

GetElementById ==
    \E x \in Ids :
      Looked("get_element_by_id", [kind |-> "id", name |-> x],
             get_element_by_id(x),
             IF ~document THEN "no_window" ELSE "none")

QuerySelector ==
    \E sel \in Selectors :
      Looked("query_selector", sel, query_selector(sel),
             IF ~document THEN "no_window"
             ELSE IF sel.kind = "bad" THEN "invalid_selector"
             ELSE "none")

Prompt ==
    \E user \in {"cancel", "text"} :
      Looked("prompt", [kind |-> user, name |-> ""], prompt(user),
             IF ~window THEN "no_window" ELSE "none")

\* ------------------------------------------------------------ host scheduler

\* A registration in the host's timer map.  The host issues identifiers
\* 1, 2, 3, ... from one counter shared by setTimeout and setInterval and
\* never issues one twice.  st: "pending" | "fired" | "cleared"; an entry
\* that left the map keeps only its kind, its handler and how it left.
Registration(kind, cb, timeout) ==
    [kind |-> kind, cb |-> cb, born |-> now, due |-> now + timeout,
     period |-> timeout, st |-> "pending"]

Gone(reg, how) ==
    [kind |-> reg.kind, cb |-> reg.cb, born |-> 0, due |-> 0, period |-> 0,
     st |-> how]

Pending(id) == id \in DOMAIN regs /\ regs[id].st = "pending"

\* window.clearTimeout(id) / window.clearInterval(id): removes the pending
\* registration id from the timer map; any other id is ignored.  The two
\* calls share one map.
HostClear(id) ==
    IF Pending(id) THEN [regs EXCEPT ![id] = Gone(@, "cleared")] ELSE regs

\* -------------------------------------------------------------------- timer

\* What a call does to the scheduler and to closure storage, and its result.
Effect(out, id, r, c, n) ==
    [outcome |-> out, id |-> id, regs |-> r, closures |-> c, invoked |-> n,
     cancels |-> <<>>]

\* The effect of a call that also issues the host's cancellation fn(arg).
Cancelling(eff, fn, arg) ==
    [eff EXCEPT !.cancels = Append(@, [fn |-> fn, arg |-> arg])]

NoEffect(out) == Effect(out, 0, regs, closures, invoked)

\* The closure dropped when the call returns instead of forgotten.
set_timeout_NoForget(timeout, accept) ==
    IF ~window
      THEN NoEffect("panic")
      ELSE LET cb == Len(closures) + 1 IN
           Effect(IF accept THEN "ok" ELSE "err",
                  IF accept THEN nextId ELSE 0,
                  IF accept
                    THEN Append(regs, Registration("timeout", cb, timeout))
                    ELSE regs,
                  Append(closures, "dropped"),
                  Append(invoked, 0))

\* The handler registered through setInterval instead of setTimeout.
set_timeout_Repeating(timeout, accept) ==
    IF ~window
      THEN NoEffect("panic")
      ELSE LET cb == Len(closures) + 1 IN
           Effect(IF accept THEN "ok" ELSE "err",
                  IF accept THEN nextId ELSE 0,
                  IF accept
                    THEN Append(regs, Registration("interval", cb, timeout))
                    ELSE regs,
                  Append(closures, "forgotten"),
                  Append(invoked, 0))

\* The handler called inside set_timeout when the delay is 0.
set_timeout_Immediate(timeout, accept) ==
    IF ~window
      THEN NoEffect("panic")
      ELSE LET cb == Len(closures) + 1 IN
           Effect(IF accept THEN "ok" ELSE "err",
                  IF accept THEN nextId ELSE 0,
                  IF accept
                    THEN Append(regs, Registration("timeout", cb, timeout))
                    ELSE regs,
                  Append(closures, "forgotten"),
                  Append(invoked, IF timeout = 0 THEN 1 ELSE 0))

\* A registration coalesced with a pending one-shot registration that is due
\* at the same instant: the earlier identifier is returned and nothing is
\* registered.
set_timeout_Coalesce(timeout, accept) ==
    IF ~window
      THEN NoEffect("panic")
      ELSE LET cb == Len(closures) + 1
               same == {id \in DOMAIN regs :
                          /\ regs[id].st = "pending"
                          /\ regs[id].kind = "timeout"
                          /\ regs[id].due = now + timeout}
           IN
           IF accept /\ same # {}
             THEN Effect("ok", CHOOSE id \in same : TRUE, regs,
                         Append(closures, "forgotten"), Append(invoked, 0))
             ELSE Effect(IF accept THEN "ok" ELSE "err",
                         IF accept THEN nextId ELSE 0,
                         IF accept
                           THEN Append(regs, Registration("timeout", cb, timeout))
                           ELSE regs,
                         Append(closures, "forgotten"),
                         Append(invoked, 0))

\* The host's answer unwrapped inside set_timeout: a refused registration
\* panics there.
set_timeout_Unwrap(timeout, accept) ==
    IF ~window
      THEN NoEffect("panic")
      ELSE LET cb == Len(closures) + 1 IN
           Effect(IF accept THEN "ok" ELSE "panic",
                  IF accept THEN nextId ELSE 0,
                  IF accept
                    THEN Append(regs, Registration("timeout", cb, timeout))
                    ELSE regs,
                  Append(closures, "forgotten"),
                  Append(invoked, 0))

\* The closure forgotten only when the host accepted the registration, and
\* dropped with the call's locals otherwise.
set_timeout_ForgetIfOk(timeout, accept) ==
    IF ~window
      THEN NoEffect("panic")
      ELSE LET cb == Len(closures) + 1 IN
           Effect(IF accept THEN "ok" ELSE "err",
                  IF accept THEN nextId ELSE 0,
                  IF accept
                    THEN Append(regs, Registration("timeout", cb, timeout))
                    ELSE regs,
                  Append(closures, IF accept THEN "forgotten" ELSE "dropped"),
                  Append(invoked, 0))

\* set_timeout(handler, timeout) -> Result<i32, JsValue>; `accept` is the
\* host's answer to the registration.
set_timeout(timeout, accept) ==
    IF ~window
      THEN NoEffect("panic")
      ELSE LET cb == Len(closures) + 1 IN
           Effect(IF accept THEN "ok" ELSE "err",
                  IF accept THEN nextId ELSE 0,
                  IF accept
                    THEN Append(regs, Registration("timeout", cb, timeout))
                    ELSE regs,
                  Append(closures, "forgotten"),
                  Append(invoked, 0))

\* The closure dropped when set_interval returns instead of forgotten.
set_interval_NoForget(timeout, accept) ==
    IF ~window
      THEN NoEffect("panic")
      ELSE LET cb == Len(closures) + 1 IN
           Effect(IF accept THEN "ok" ELSE "err",
                  IF accept THEN nextId ELSE 0,
                  IF accept
                    THEN Append(regs, Registration("interval", cb, timeout))
                    ELSE regs,
                  Append(closures, "dropped"),
                  Append(invoked, 0))

\* The handler registered through setTimeout instead of setInterval.
set_interval_Once(timeout, accept) ==
    IF ~window
      THEN NoEffect("panic")
      ELSE LET cb == Len(closures) + 1 IN
           Effect(IF accept THEN "ok" ELSE "err",
                  IF accept THEN nextId ELSE 0,
                  IF accept
                    THEN Append(regs, Registration("timeout", cb, timeout))
                    ELSE regs,
                  Append(closures, "forgotten"),
                  Append(invoked, 0))

\* set_interval(handler, timeout) -> Result<i32, JsValue>
set_interval(timeout, accept) ==
    IF ~window
      THEN NoEffect("panic")
      ELSE LET cb == Len(closures) + 1 IN
           Effect(IF accept THEN "ok" ELSE "err",
                  IF accept THEN nextId ELSE 0,
                  IF accept
                    THEN Append(regs, Registration("interval", cb, timeout))
                    ELSE regs,
                  Append(closures, "forgotten"),
                  Append(invoked, 0))

\* A cancellation that fails when the identifier is not pending.
clear_timeout_Strict(timeout_id) ==
    IF ~window \/ ~Pending(timeout_id)
      THEN NoEffect("panic")
      ELSE Cancelling(Effect("ok", 0, HostClear(timeout_id), closures, invoked),
                      "clearTimeout", timeout_id)

\* clear_timeout(timeout_id)
clear_timeout(timeout_id) ==
    IF ~window
      THEN NoEffect("panic")
      ELSE Cancelling(Effect("ok", 0, HostClear(timeout_id), closures, invoked),
                      "clearTimeout", timeout_id)

\* The host's clearInterval never called.
clear_interval_Ignored(timeout) ==
    IF ~window THEN NoEffect("panic") ELSE NoEffect("ok")

\* clear_interval(timeout)
clear_interval(timeout) ==
    IF ~window
      THEN NoEffect("panic")
      ELSE Cancelling(Effect("ok", 0, HostClear(timeout), closures, invoked),
                      "clearInterval", timeout)

\* The handle built first around the identifier the host will issue next,
\* the registration left for later.
Timeout_start_Lazy(timeout, accept) ==
    IF ~window
      THEN [eff |-> NoEffect("panic"), handle |-> None]
      ELSE [eff |-> NoEffect("ok"),
            handle |-> Some([kind |-> "Timeout", id |-> nextId])]

\* The delay stored in the handle instead of the identifier returned.
Timeout_start_StoresDelay(timeout, accept) ==
    LET r == set_timeout(timeout, accept) IN
    IF r.outcome = "ok"
      THEN [eff |-> r, handle |-> Some([kind |-> "Timeout", id |-> timeout])]
      ELSE [eff |-> [r EXCEPT !.outcome = "panic"], handle |-> None]

\* Timeout::start: set_timeout(handler, timeout).unwrap(), Self { timeout_id }
Timeout_start(timeout, accept) ==
    LET r == set_timeout(timeout, accept) IN
    IF r.outcome = "ok"
      THEN [eff |-> r, handle |-> Some([kind |-> "Timeout", id |-> r.id])]
      ELSE [eff |-> [r EXCEPT !.outcome = "panic"], handle |-> None]

\* The cancellation issued for the identifier after the handle's own.
Timeout_stop_NextId(self) == clear_timeout(self.id + 1)

\* No cancellation issued.
Timeout_stop_Nothing(self) ==
    IF ~window THEN NoEffect("panic") ELSE NoEffect("ok")

\* The repeating cancel issued by Timeout::stop.
Timeout_stop_ClearInterval(self) == clear_interval(self.id)

\* Timeout::stop: clear_timeout(self.timeout_id)
Timeout_stop(self) == clear_timeout(self.id)

\* A copy that holds the identifier after the original's.
Timeout_clone_Fresh(self) == [kind |-> "Timeout", id |-> self.id + 1]

\* #[derive(Clone)] on Timeout: a new Timeout whose timeout_id is a copy of
\* the original's.
Timeout_clone(self) == [kind |-> "Timeout", id |-> self.id]

\* unwrap_or_default in place of unwrap: a handle is built around identifier
\* 0 when the host rejects the registration.
Interval_start_OrDefault(timeout, accept) ==
    LET r == set_interval(timeout, accept) IN
    IF r.outcome = "panic"
      THEN [eff |-> r, handle |-> None]
      ELSE [eff |-> [r EXCEPT !.outcome = "ok"],
            handle |-> Some([kind |-> "Interval", id |-> r.id])]

\* Interval::start: set_interval(handler, timeout).unwrap(), Self { interval_id }
Interval_start(timeout, accept) ==
    LET r == set_interval(timeout, accept) IN
    IF r.outcome = "ok"
      THEN [eff |-> r, handle |-> Some([kind |-> "Interval", id |-> r.id])]
      ELSE [eff |-> [r EXCEPT !.outcome = "panic"], handle |-> None]

\* Interval::stop: clear_interval(self.interval_id)
Interval_stop(self) == clear_interval(self.id)

\* The scheduler and closure storage after a call.
Apply(eff) ==
    /\ regs' = eff.regs
    /\ nextId' = Len(eff.regs) + 1
    /\ closures' = eff.closures
    /\ invoked' = eff.invoked
    /\ outcome' = eff.outcome

\* A call may register while the closure budget and the clock leave room.
CanRegister(timeout) ==
    /\ mpc = "idle"
    /\ Len(closures) < MaxCalls
    /\ now + timeout <= MaxTime

\* stops[h] tells whether stop was called on handle h never, once or again.
Counted(n) == IF n = "never" THEN "once" ELSE "again"

\* The failure the host answers a registration with, if any.
RegisterFailure(accept) ==
    IF ~window THEN "no_window" ELSE IF ~accept THEN "refused" ELSE "none"

\* clearTimeout / clearInterval accept any identifier.
ClearFailure == IF ~window THEN "no_window" ELSE "none"

\* The handlers wrapped so far and the function that wrapped each: a call
\* wraps its handler once it has found the window.
Wrapped(name) == IF window THEN Append(by, name) ELSE by

Started(s) ==
    /\ Apply(s.eff)
    /\ IF s.handle.some
         THEN /\ handles' = Append(handles, s.handle.val)
              /\ stops' = Append(stops, "never")
              /\ cancels' = Append(cancels, <<>>)
         ELSE UNCHANGED <<handles, stops, cancels>>

\* set_timeout / set_interval called directly; the caller gets the Result
\* and keeps no handle.
SetTimeoutCall ==
    /\ \E timeout \in 0..MaxDelay, accept \in BOOLEAN :
         /\ CanRegister(timeout)
         /\ Apply(set_timeout(timeout, accept))
         /\ failure' = RegisterFailure(accept)
    /\ by' = Wrapped("set_timeout")
    /\ UNCHANGED <<window, domVars, now, handles, stops, cancels>>

SetIntervalCall ==
    /\ \E timeout \in 1..MaxDelay, accept \in BOOLEAN :
         /\ CanRegister(timeout)
         /\ Apply(set_interval(timeout, accept))
         /\ failure' = RegisterFailure(accept)
    /\ by' = Wrapped("set_interval")
    /\ UNCHANGED <<window, domVars, now, handles, stops, cancels>>

TimeoutStart ==
    /\ \E timeout \in 0..MaxDelay, accept \in BOOLEAN :
         /\ CanRegister(timeout)
         /\ Started(Timeout_start(timeout, accept))
         /\ failure' = RegisterFailure(accept)
    /\ by' = Wrapped("Timeout::start")
    /\ UNCHANGED <<window, domVars, now>>

IntervalStart ==
    /\ \E timeout \in 1..MaxDelay, accept \in BOOLEAN :
         /\ CanRegister(timeout)
         /\ Started(Interval_start(timeout, accept))
         /\ failure' = RegisterFailure(accept)
    /\ by' = Wrapped("Interval::start")
    /\ UNCHANGED <<window, domVars, now>>

\* A stop that takes the identifier out of the handle, leaving 0.
TimeoutStop_Takes ==
    /\ mpc = "idle"
    /\ \E h \in DOMAIN handles :
         /\ handles[h].kind = "Timeout"
         /\ Apply(Timeout_stop(handles[h]))
         /\ stops' = [stops EXCEPT ![h] = Counted(@)]
         /\ cancels' = [cancels EXCEPT ![h] = Timeout_stop(handles[h]).cancels]
         /\ failure' = ClearFailure
         /\ handles' = [handles EXCEPT ![h].id = 0]
    /\ UNCHANGED <<window, domVars, now, by>>

TimeoutStop ==
    /\ mpc = "idle"
    /\ \E h \in DOMAIN handles :
         /\ handles[h].kind = "Timeout"
         /\ Apply(Timeout_stop(handles[h]))
         /\ stops' = [stops EXCEPT ![h] = Counted(@)]
         /\ cancels' = [cancels EXCEPT ![h] = Timeout_stop(handles[h]).cancels]
         /\ failure' = ClearFailure
    /\ UNCHANGED <<window, domVars, now, handles, by>>

IntervalStop ==
    /\ mpc = "idle"
    /\ \E h \in DOMAIN handles :
         /\ handles[h].kind = "Interval"
         /\ Apply(Interval_stop(handles[h]))
         /\ stops' = [stops EXCEPT ![h] = Counted(@)]
         /\ cancels' = [cancels EXCEPT ![h] = Interval_stop(handles[h]).cancels]
         /\ failure' = ClearFailure
    /\ UNCHANGED <<window, domVars, now, handles, by>>

\* ---------------------------------------------------------- host event loop

\* The handles that are copies of an earlier handle.
Clones ==
    {h \in DOMAIN handles :
       \E g \in 1..(h - 1) : handles[g] = handles[h]}

\* timeout.clone(): the copy is one more Timeout value of the program; the
\* host is not called.
TimeoutClone ==
    /\ mpc = "idle"
    /\ Cardinality(Clones) < MaxClones
    /\ \E h \in DOMAIN handles :
         /\ handles[h].kind = "Timeout"
         /\ handles' = Append(handles, Timeout_clone(handles[h]))
    /\ stops' = Append(stops, "never")
    /\ cancels' = Append(cancels, <<>>)
    /\ outcome' = "ok"
    /\ failure' = "none"
    /\ UNCHANGED <<window, domVars, now, nextId, regs, closures, invoked, by>>

Due(id) == Pending(id) /\ regs[id].due <= now

\* An event loop that runs a due handler whatever is on the stack.
Fire_Reentrant(id) ==
    /\ window
    /\ Due(id)
    /\ invoked' = IF closures[regs[id].cb] = "forgotten"
                    THEN [invoked EXCEPT ![regs[id].cb] = @ + 1]
                    ELSE invoked
    /\ regs' = IF regs[id].kind = "timeout"
                 THEN [regs EXCEPT ![id] = Gone(@, "fired")]
                 ELSE [regs EXCEPT ![id].due = @ + regs[id].period]
    /\ UNCHANGED <<window, outcome, failure, domVars, now, nextId, closures,
                   handles, stops, cancels, by>>

\* A handler wrapped for one call only: its storage is released once the
\* host has invoked it.
Fire_Releasing(id) ==
    /\ window
    /\ mpc = "idle"
    /\ Due(id)
    /\ invoked' = IF closures[regs[id].cb] = "forgotten"
                    THEN [invoked EXCEPT ![regs[id].cb] = @ + 1]
                    ELSE invoked
    /\ closures' = [closures EXCEPT ![regs[id].cb] = "dropped"]
    /\ regs' = IF regs[id].kind = "timeout"
                 THEN [regs EXCEPT ![id] = Gone(@, "fired")]
                 ELSE [regs EXCEPT ![id].due = @ + regs[id].period]
    /\ UNCHANGED <<window, outcome, failure, domVars, now, nextId, handles,
                   stops, cancels, by>>

\* The event loop runs the handler of a due registration once no wrapper
\* call is on the stack.  A one-shot registration leaves the timer map, a
\* repeating one is due again one period later.  A handler whose storage
\* was released cannot run.
Fire(id) ==
    /\ window
    /\ mpc = "idle"
    /\ Due(id)
    /\ invoked' = IF closures[regs[id].cb] = "forgotten"
                    THEN [invoked EXCEPT ![regs[id].cb] = @ + 1]
                    ELSE invoked
    /\ regs' = IF regs[id].kind = "timeout"
                 THEN [regs EXCEPT ![id] = Gone(@, "fired")]
                 ELSE [regs EXCEPT ![id].due = @ + regs[id].period]
    /\ UNCHANGED <<window, outcome, failure, domVars, now, nextId, closures,
                   handles, stops, cancels, by>>

Dispatch == \E id \in DOMAIN regs : Fire(id)

\* The clock advances once every handler due at the current instant has run.
Tick ==
    /\ window
    /\ now < MaxTime
    /\ \A id \in DOMAIN regs : ~Due(id)
    /\ now' = now + 1
    /\ UNCHANGED <<window, outcome, failure, domVars, nextId, regs, closures,
                   invoked, handles, stops, cancels, by>>

\* ------------------------------------------------------------- initial state

Init ==
    /\ window \in BOOLEAN
    /\ created = 0
    /\ className = [e \in Elems |-> NoClass]
    /\ doc = <<>>
    /\ mpc = "idle"
    /\ mq = NoQuery
    /\ i = 0
    /\ vec = <<>>
    /\ ret = Vec(<<>>)
    /\ probes = <<>>
    /\ queries = 0
    /\ elemId = [e \in Elems |-> NoId]
    /\ lookup = NoLookup
    /\ outcome = "none"
    /\ failure = "none"
    /\ now = 0
    /\ nextId = 1
    /\ regs = <<>>
    /\ closures = <<>>
    /\ invoked = <<>>
    /\ handles = <<>>
    /\ stops = <<>>
    /\ cancels = <<>>
    /\ by = <<>>

\* A page whose <body> holds MaxElems elements of class "a", as left by
\* create_element, set_class_name and append_child, before any query and any
\* timer call.
InitLoop ==
    /\ window = TRUE
    /\ created = MaxElems
    /\ className = [e \in Elems |-> "a"]
    /\ doc = [k \in 1..MaxElems |-> k]
    /\ mpc = "idle"
    /\ mq = NoQuery
    /\ i = 0
    /\ vec = <<>>
    /\ ret = Vec(<<>>)
    /\ probes = <<>>
    /\ queries = 0
    /\ elemId = [e \in Elems |-> NoId]
    /\ lookup = NoLookup
    /\ outcome = "none"
    /\ failure = "none"
    /\ now = 0
    /\ nextId = 1
    /\ regs = <<>>
    /\ closures = <<>>
    /\ invoked = <<>>
    /\ handles = <<>>
    /\ stops = <<>>
    /\ cancels = <<>>
    /\ by = <<>>

NextDom ==
    \/ create_element
    \/ set_class_name
    \/ append_child
    \/ remove
    \/ get_elements_by_classname_inside_vec
    \/ query_selector_all_inside_vec
    \/ InsideVecLoop

SpecDom == Init /\ [][NextDom]_vars

\* Lookups of single elements in a document whose elements carry ids.
NextLookup ==
    \/ create_element
    \/ set_id
    \/ append_child
    \/ GetElementById
    \/ QuerySelector

SpecLookup == Init /\ [][NextLookup]_vars

\* Every call that can come back empty-handed, over documents whose
\* elements carry neither an id nor a class.
NextAbsent ==
    \/ create_element
    \/ append_child
    \/ GetElementById
    \/ QuerySelector
    \/ Prompt
    \/ get_elements_by_classname_inside_vec
    \/ query_selector_all_inside_vec
    \/ InsideVecLoop

SpecAbsent == Init /\ [][NextAbsent]_vars

\* The calls that the host can fail: for want of a window (all), for an
\* invalid tag name, for a malformed selector, for a refused registration.
NextFail ==
    \/ create_element
    \/ QuerySelector
    \/ SetTimeoutCall
    \/ SetIntervalCall
    \/ TimeoutStart
    \/ IntervalStart

SpecFail == Init /\ [][NextFail]_vars

NextTimer ==
    \/ TimeoutStart
    \/ IntervalStart
    \/ TimeoutStop
    \/ IntervalStop
    \/ Dispatch
    \/ Tick

SpecTimer == Init /\ [][NextTimer]_vars

\* The host's event loop keeps running: the clock advances and due handlers
\* are dispatched.
LiveTimer == SpecTimer /\ WF_vars(Tick) /\ WF_vars(Dispatch)

\* get_elements_by_classname_inside_vec passes over that page while timers
\* are started, come due and fire.
NextLoop ==
    \/ get_elements_by_classname_inside_vec
    \/ InsideVecLoop
    \/ TimeoutStart
    \/ IntervalStart
    \/ TimeoutStop
    \/ Dispatch
    \/ Tick

SpecLoop == InitLoop /\ [][NextLoop]_vars

\* One-shot timers whose handles are copied and stopped through any copy,
\* within one instant of the host's clock: a timer started with delay 0 is
\* due and may fire before or after a stop, one with a longer delay stays
\* pending.
NextClone ==
    \/ TimeoutStart
    \/ TimeoutClone
    \/ TimeoutStop
    \/ Dispatch

SpecClone == Init /\ [][NextClone]_vars

\* The two parts share only `window` and `outcome`, and each has its own
\* specification; this one interleaves them.
Next == NextDom \/ NextTimer

Spec == Init /\ [][Next]_vars

\* --------------------------------------------------------------- properties

\* The step on which a *_inside_vec call hands its vector to the caller.
Returns == mpc = "loop" /\ mpc' = "idle" /\ outcome' = "ok"

\* The host collection the running call's query denotes.
Queried == Collection(mq).val

\* C1: a *_inside_vec call over a host collection with N items at indices
\* 0..N-1 and none at index N returns exactly N items, the k-th being the
\* collection's item k; with N = 0 it returns the empty sequence.
C1_ReturnsCollectionInOrder ==
    [][Returns =>
         LET N == Len(Contents(Queried)) IN
           /\ item(Queried, N) = None
           /\ Len(Contents(ret)') = N
           /\ \A k \in 0..(N - 1) :
                Contents(ret)'[k + 1] = item(Queried, k).val]_vars

\* A call of either kind has returned two items, which the document holds in
\* that order.
C1_Witness ==
    /\ mpc = "idle"
    /\ outcome = "ok"
    /\ mq.kind \in {"classname", "selector"}
    /\ Len(ret.items) = 2
    /\ ret.items = Matching(doc, className, mq.cls)

\* C2: a *_inside_vec call with a class name or a valid selector that no
\* element of the document matches ends by returning the empty sequence,
\* never by a panic.
C2_EmptyQueryReturnsEmpty ==
    [][(mpc = "loop" /\ document /\ mq.valid
          /\ Matching(doc, className, mq.cls) = <<>>)
         => (mpc' = "idle" /\ outcome' = "ok" /\ Contents(ret)' = <<>>)]_vars

\* A selector call has returned the empty sequence from a document that holds
\* elements, none of them matching.
C2_Witness ==
    /\ mpc = "idle"
    /\ outcome = "ok"
    /\ mq.kind = "selector"
    /\ mq.valid
    /\ doc # <<>>
    /\ Matching(doc, className, mq.cls) = <<>>
    /\ ret = Vec(<<>>)

\* C3: once returned, the sequence is a snapshot: whatever the host does to
\* the document while no *_inside_vec call runs (elements inserted, removed,
\* given another class), the returned sequence reads the same.
C3_ReturnedSequenceIsSnapshot ==
    [][(mpc = "idle" /\ mpc' = "idle") => Contents(ret)' = Contents(ret)]_vars

\* The returned sequence holds an element that has since left the document
\* and lacks one that has since come to match.
C3_Witness ==
    /\ mpc = "idle"
    /\ mq.kind \in {"classname", "selector"}
    /\ \E e \in Range(ret.items) : e \notin Range(doc)
    /\ \E e \in Range(doc) : className[e] = mq.cls /\ e \notin Range(ret.items)

\* Position of element e among the children of <body>.
Pos(d, e) == CHOOSE k \in 1..Len(d) : d[k] = e

\* C4: a call reflects the document at the time of the call: no element that
\* is created but not inserted is in the result, the result holds exactly the
\* inserted elements that match, and it lists them in the order in which
\* they were appended to <body>.
C4_ReflectsDocumentAtCall ==
    [][Returns =>
         LET r == Contents(ret)' IN
           /\ \A e \in 1..created : e \notin Range(doc) => e \notin Range(r)
           /\ \A e \in Range(doc) : (className[e] = mq.cls) <=> (e \in Range(r))
           /\ \A a, b \in 1..Len(r) :
                a < b => Pos(doc, r[a]) < Pos(doc, r[b])]_vars

\* A call has returned the two matching elements of the document while a
\* third element of the same class is created but not inserted.
C4_Witness ==
    /\ mpc = "idle"
    /\ outcome = "ok"
    /\ mq.kind \in {"classname", "selector"}
    /\ Len(ret.items) = 2
    /\ ret.items = Matching(doc, className, mq.cls)
    /\ \E e \in 1..created : className[e] = mq.cls /\ e \notin Range(doc)

\* The registration and the handler behind handle h.
RegOf(h) == regs[handles[h].id]
CbOf(h)  == RegOf(h).cb

\* The step is a counted stop call on handle h.
StopStep(h) == stops'[h] # stops[h]

\* A step that leaves the scheduler, the handlers, the handles and the clock
\* as they are.
HostUntouched ==
    /\ regs' = regs
    /\ nextId' = nextId
    /\ closures' = closures
    /\ invoked' = invoked
    /\ handles' = handles
    /\ now' = now

\* C5: stop is idempotent on Timeout and Interval handles: no stop call
\* fails, the second stop on a handle leaves the scheduler and everything
\* else observable as the first left it, and a handler is not invoked after
\* stop was called on its handle.
C5_StopIdempotent ==
    [][\A h \in DOMAIN handles :
         /\ StopStep(h) => outcome' = "ok"
         /\ (stops[h] = "once" /\ stops'[h] = "again") => HostUntouched
         /\ stops[h] # "never" => invoked'[CbOf(h)] = invoked[CbOf(h)]]_vars

\* stop was called twice on a Timeout handle and twice on an Interval handle,
\* the first before its handler ever ran.
C5_Witness ==
    \E h, g \in DOMAIN handles :
      /\ handles[h].kind = "Timeout"
      /\ handles[g].kind = "Interval"
      /\ stops[h] = "again"
      /\ stops[g] = "again"
      /\ invoked[CbOf(h)] = 0
      /\ now = MaxTime

\* C6: Timeout::stop called after the one-shot handler has run does not
\* fail and changes nothing in the scheduler: the registrations made before
\* and after it keep their identifiers and their state, and the next
\* identifier to be issued is the same.
C6_StopAfterFireIsNoOp ==
    [][\A h \in DOMAIN handles :
         (handles[h].kind = "Timeout" /\ RegOf(h).st = "fired" /\ StopStep(h))
           => (outcome' = "ok" /\ HostUntouched)]_vars

\* stop was called on a Timeout handle whose handler had run, while a
\* registration made after that one is pending.
C6_Witness ==
    \E h, g \in DOMAIN handles :
      /\ handles[h].kind = "Timeout"
      /\ RegOf(h).st = "fired"
      /\ invoked[CbOf(h)] = 1
      /\ stops[h] = "once"
      /\ handles[g].id > handles[h].id
      /\ RegOf(g).st = "pending"

\* C7: two handles obtained from two start calls hold different identifiers,
\* and stop on one handle changes no registration but its own.
C7_HandlesIsolated ==
    [][/\ \A h, g \in DOMAIN handles' :
            h # g => handles'[h].id # handles'[g].id
       /\ \A h \in DOMAIN handles :
            StopStep(h) =>
              \A id \in DOMAIN regs :
                id # handles[h].id => regs'[id] = regs[id]]_vars

\* A Timeout and an Interval handle exist, stop was called on the first and
\* the second is still pending.
C7_Witness ==
    \E h, g \in DOMAIN handles :
      /\ handles[h].kind = "Timeout"
      /\ handles[g].kind = "Interval"
      /\ stops[h] = "once"
      /\ RegOf(h).st = "cleared"
      /\ stops[g] = "never"
      /\ RegOf(g).st = "pending"

OneShot(id) == id \in DOMAIN regs /\ regs[id].kind = "timeout"

\* C8: under a host whose clock advances and whose event loop dispatches due
\* handlers, a one-shot registration that is not cancelled leads to its
\* handler being invoked; a one-shot registration is never pending past its
\* delay, and once it has fired its handler has run.
C8_OneShotFires ==
    /\ \A id \in 1..MaxCalls :
         (OneShot(id) /\ regs[id].st = "pending")
           ~> (OneShot(id)
                 /\ \/ regs[id].st = "cleared"
                    \/ regs[id].st = "fired" /\ invoked[regs[id].cb] >= 1)
    /\ [](\A id \in DOMAIN regs :
            OneShot(id) =>
              /\ regs[id].st = "pending" => now <= regs[id].due
              /\ regs[id].st = "fired" => invoked[regs[id].cb] >= 1)

\* A Timeout started with a positive delay and never stopped has fired and
\* its handler has run.
C8_Witness ==
    \E h \in DOMAIN handles :
      /\ handles[h].kind = "Timeout"
      /\ stops[h] = "never"
      /\ RegOf(h).st = "fired"
      /\ invoked[CbOf(h)] = 1
      /\ now >= 1

\* C9: when Timeout::stop is called on a handle before its delay has elapsed,
\* the handler has not run, and after stop has been called it never runs.
C9_StoppedTimeoutNeverFires ==
    [][\A h \in DOMAIN handles :
         handles[h].kind = "Timeout" =>
           /\ (StopStep(h) /\ RegOf(h).st = "pending" /\ now < RegOf(h).due)
                => invoked'[CbOf(h)] = 0
           /\ stops[h] # "never" => invoked'[CbOf(h)] = invoked[CbOf(h)]]_vars

\* A Timeout was stopped while pending, the clock has run to its end and the
\* handler has not run.
C9_Witness ==
    \E h \in DOMAIN handles :
      /\ handles[h].kind = "Timeout"
      /\ stops[h] = "once"
      /\ RegOf(h).st = "cleared"
      /\ invoked[CbOf(h)] = 0
      /\ now = MaxTime

\* C10: an Interval started with interval I and not stopped stays pending,
\* and when time t has passed since start and no firing is due at this
\* instant its handler has run exactly t \div I times (one less while the
\* firing of this instant is still to be dispatched); before one full
\* interval has passed it has not run.
C10_IntervalCount ==
    \A h \in DOMAIN handles :
      (handles[h].kind = "Interval" /\ stops[h] = "never") =>
        /\ RegOf(h).st = "pending"
        /\ LET t == now - RegOf(h).born
               I == RegOf(h).period
           IN  /\ I >= 1
               /\ invoked[CbOf(h)] =
                    IF Due(handles[h].id) THEN (t \div I) - 1 ELSE t \div I
               /\ t < I => invoked[CbOf(h)] = 0

\* An Interval with interval 1 has run three times after three time units,
\* and another with interval 2 has run once after three.
C10_Witness ==
    /\ \E h \in DOMAIN handles :
         /\ handles[h].kind = "Interval"
         /\ stops[h] = "never"
         /\ RegOf(h).period = 1
         /\ now - RegOf(h).born = 3
         /\ invoked[CbOf(h)] = 3
    /\ \E h \in DOMAIN handles :
         /\ handles[h].kind = "Interval"
         /\ stops[h] = "never"
         /\ RegOf(h).period = 2
         /\ now - RegOf(h).born = 3
         /\ invoked[CbOf(h)] = 1

\* C11: once Interval::stop has been called on a handle its registration is
\* cleared and stays cleared whatever is called next, and its handler is not
\* invoked again; stop called before the first firing leaves the handler's
\* count at 0 from then on.
C11_StoppedIntervalIsTerminal ==
    [][\A h \in DOMAIN handles :
         handles[h].kind = "Interval" =>
           /\ StopStep(h) =>
                /\ regs'[handles[h].id].st = "cleared"
                /\ invoked'[CbOf(h)] = invoked[CbOf(h)]
           /\ stops[h] # "never" =>
                /\ stops'[h] # "never"
                /\ RegOf(h).st = "cleared"
                /\ regs'[handles[h].id] = RegOf(h)
                /\ invoked'[CbOf(h)] = invoked[CbOf(h)]]_vars

\* An Interval was stopped before its first firing, the clock has run to
\* its end and the handler has not run.
C11_Witness ==
    \E h \in DOMAIN handles :
      /\ handles[h].kind = "Interval"
      /\ stops[h] = "once"
      /\ RegOf(h).st = "cleared"
      /\ invoked[CbOf(h)] = 0
      /\ now = MaxTime

\* The step is a start call whose registration the host rejected: the
\* handler was wrapped and no registration was made.
Rejected == Len(closures') > Len(closures) /\ regs' = regs

\* C12: Timeout::start and Interval::start fail whenever the host rejects
\* the registration or there is no window, and then return no handle: a
\* handle comes into existence only together with the registration whose
\* identifier it holds.
C12_FailedStartReturnsNoHandle ==
    [][/\ Rejected => (outcome' = "panic" /\ handles' = handles)
       /\ ~window =>
            /\ outcome' = "panic"
            /\ handles' = handles
            /\ regs' = regs
            /\ closures' = closures
       /\ handles' # handles =>
            /\ outcome' = "ok"
            /\ Len(handles') = Len(handles) + 1
            /\ Len(regs') = Len(regs) + 1
            /\ handles'[Len(handles')].id = Len(regs')
            /\ regs'[Len(regs')].st = "pending"
       /\ \A h \in DOMAIN handles' : handles'[h].id \in DOMAIN regs']_vars

\* A start call was rejected by the host after another had returned a
\* handle: two handlers were wrapped, one registration and one handle exist.
C12_Witness ==
    /\ window
    /\ outcome = "panic"
    /\ Len(closures) = 2
    /\ Len(regs) = 1
    /\ Len(handles) = 1

\* C18: the handler passed to start has not run when start returns, for
\* every delay including 0: a handler's count rises only in a step of the
\* host's event loop, taken after the call that registered it, in which no
\* wrapper call is made and the registration is due.
C18_NoInvocationBeforeStartReturns ==
    [][/\ \A k \in DOMAIN invoked' :
            k \notin DOMAIN invoked => invoked'[k] = 0
       /\ \A k \in DOMAIN invoked :
            invoked'[k] # invoked[k] =>
              /\ invoked'[k] = invoked[k] + 1
              /\ closures' = closures
              /\ handles' = handles
              /\ stops' = stops
              /\ outcome' = outcome
              /\ \E id \in DOMAIN regs : regs[id].cb = k /\ Due(id)]_vars

\* A Timeout started with delay 0 has run its handler at the instant of the
\* call, while a second start call has been made since.
C18_Witness ==
    \E h \in DOMAIN handles :
      /\ handles[h].kind = "Timeout"
      /\ RegOf(h).st = "fired"
      /\ invoked[CbOf(h)] = 1
      /\ now = 0
      /\ Len(closures) = 2

\* C19: the handler of a Timeout is invoked at most once over the whole
\* run, whatever stop calls and host steps follow its start: its count is 0
\* while the registration is pending or was cleared, 1 once it has fired,
\* and never more.
C19_OneShotAtMostOnce ==
    \A h \in DOMAIN handles :
      handles[h].kind = "Timeout" =>
        /\ invoked[CbOf(h)] <= 1
        /\ invoked[CbOf(h)] = 1 <=> RegOf(h).st = "fired"

\* A Timeout has fired, stop was called on it twice, the clock has run to
\* its end, and its handler has run once.
C19_Witness ==
    \E h \in DOMAIN handles :
      /\ handles[h].kind = "Timeout"
      /\ RegOf(h).st = "fired"
      /\ stops[h] = "again"
      /\ invoked[CbOf(h)] = 1
      /\ now = MaxTime

Repeating(id) == id \in DOMAIN regs /\ regs[id].kind = "interval"

\* C20: a repeating registration never ends by itself.  It leaves Pending
\* only in a step that calls stop on its handle; each firing invokes the
\* handler once and leaves the registration pending and due one interval
\* later; and under a host whose clock advances and whose event loop
\* dispatches due handlers, every firing that falls within the clock's
\* range is reached, so an unstopped registration ends up waiting for a
\* firing beyond MaxTime.
C20_IntervalNeverSelfTerminates ==
    /\ [][\A id \in DOMAIN regs :
             (Repeating(id) /\ regs[id].st = "pending") =>
               /\ regs'[id].st # "pending" =>
                    /\ regs'[id].st = "cleared"
                    /\ \E h \in DOMAIN handles :
                         handles[h].id = id /\ StopStep(h)
               /\ invoked'[regs[id].cb] # invoked[regs[id].cb] =>
                    /\ invoked'[regs[id].cb] = invoked[regs[id].cb] + 1
                    /\ regs'[id].st = "pending"
                    /\ regs'[id].due = regs[id].due + regs[id].period
               /\ (regs'[id].st = "pending" /\ regs'[id].due # regs[id].due)
                    => invoked'[regs[id].cb] = invoked[regs[id].cb] + 1]_vars
    /\ \A id \in 1..MaxCalls :
         <>[]((Repeating(id) /\ regs[id].st = "pending")
                => regs[id].due > MaxTime)

\* An Interval with interval 1 started at time 0 and never stopped has run
\* at every instant up to the end of the clock and is still pending.
C20_Witness ==
    \E h \in DOMAIN handles :
      /\ handles[h].kind = "Interval"
      /\ stops[h] = "never"
      /\ RegOf(h).st = "pending"
      /\ RegOf(h).due = MaxTime + 1
      /\ invoked[CbOf(h)] = MaxTime

\* The indices 0, 1, ..., n - 1 in increasing order.
Ascending(s) == \A k \in 1..Len(s) : s[k] = k - 1

\* C16: a *_inside_vec call probes the indices 0, 1, 2, ... in increasing
\* order, each once; a probe that finds an item appends it and the loop goes
\* on, the first probe that finds none ends the call, and no index is
\* probed after it: the call returns after L + 1 probes a vector of length
\* L, the L first probes having found an item and the last one none.
C16_ProbesInOrderUntilAbsent ==
    [][/\ Ascending(probes')
       /\ mpc' = "loop" => Len(vec') = Len(probes')
       /\ (mpc = "loop" /\ probes' # probes) =>
            LET probe == item(Queried, Len(probes)) IN
              /\ probes' = Append(probes, Len(probes))
              /\ probe.some <=> mpc' = "loop"
              /\ probe.some => vec' = Append(vec, probe.val)
              /\ ~probe.some => (Returns /\ ret' = Vec(vec))
       /\ (mpc = "idle" /\ mpc' = "idle") => probes' = probes
       /\ Returns =>
            LET L == Len(Contents(ret)') IN
              /\ Len(probes') = L + 1
              /\ \A k \in 0..(L - 1) : item(Queried, k).some
              /\ ~item(Queried, L).some]_vars

\* A call has returned the two matching elements of a document of three
\* after probing the indices 0, 1 and 2.
C16_Witness ==
    /\ mpc = "idle"
    /\ outcome = "ok"
    /\ probes = <<0, 1, 2>>
    /\ Len(ret.items) = 2
    /\ Len(doc) = 3

\* The step is a call of get_element_by_id, query_selector or prompt that
\* met no host failure; lookup' is then the record of that call.
Answered ==
    /\ mpc = "idle"
    /\ mpc' = "idle"
    /\ failure' = "none"
    /\ created' = created
    /\ doc' = doc
    /\ elemId' = elemId
    /\ className' = className
    /\ closures' = closures
    /\ stops' = stops

\* What the host has to offer to the call recorded in c: nothing when the
\* user cancels the prompt or no element of the document matches.
Nothing(c) ==
    IF c.op = "prompt" THEN c.arg.kind = "cancel" ELSE Selected(c.arg) = <<>>

\* C14: absence is not a failure.  A call of get_element_by_id,
\* query_selector or prompt that meets no host failure returns, and returns
\* None exactly when nothing matches or the user cancels; a *_inside_vec
\* call over a query that matches nothing returns the empty vector; and a
\* call panics only when the host failed it (no window, malformed selector,
\* invalid tag name).
C14_AbsenceIsNotFailure ==
    [][/\ Answered =>
            /\ outcome' = "ok"
            /\ lookup'.res.some <=> ~Nothing(lookup')
       /\ (mpc = "loop" /\ mpc' = "idle" /\ Contents(Queried) = <<>>
             /\ failure' = "none")
            => (outcome' = "ok" /\ Contents(ret)' = <<>>)
       /\ outcome' = "panic" <=> failure' # "none"]_vars

\* In a document that holds elements, a query-all call has returned the
\* empty vector after one probe, then a lookup by id has returned None, and
\* nothing has failed.
C14_Witness ==
    /\ window
    /\ doc # <<>>
    /\ mq.kind = "selector"
    /\ probes = <<0>>
    /\ ret = Vec(<<>>)
    /\ lookup.op = "get_element_by_id"
    /\ lookup.res = None
    /\ outcome = "ok"
    /\ failure = "none"

\* The elements carrying id x.
Carriers(x) == {e \in 1..created : elemId[e] = x}

\* C15: create_element creates an element without inserting it, and a
\* lookup by id (get_element_by_id(x), query_selector("#x")) sees only the
\* document: it returns None while every element carrying x is created but
\* not appended to <body>, it returns the element carrying x once that
\* element has been appended, and it never returns an element that is not
\* in the document.
C15_CreatedIsNotInserted ==
    [][/\ created' # created =>
            /\ created' = created + 1
            /\ doc' = doc
            /\ created' \notin Range(doc')
       /\ (Answered /\ lookup'.arg.kind = "id") =>
            LET x == lookup'.arg.name
                r == lookup'.res
            IN  /\ Carriers(x) \cap Range(doc) = {} => r = None
                /\ \A e \in Range(doc) : Carriers(x) = {e} => r = Some(e)
                /\ r.some => r.val \in Carriers(x) \cap Range(doc)]_vars

\* query_selector("#x") has returned the element carrying x, appended to
\* <body> after another element, while an element carrying another id is
\* created and not inserted.
C15_Witness ==
    /\ lookup.op = "query_selector"
    /\ lookup.arg.kind = "id"
    /\ lookup.res.some
    /\ Carriers(lookup.arg.name) = {lookup.res.val}
    /\ Len(doc) = 2
    /\ doc[2] = lookup.res.val
    /\ \E e \in 1..created : elemId[e] \in Ids /\ e \notin Range(doc)
    /\ outcome = "ok"

\* C13 as stated: every host failure ends the call that met it in a panic.
C13_EveryFailureIsFatal == failure # "none" => outcome = "panic"

\* The step is a call that the host failed.
FailedCall ==
    /\ failure' # "none"
    /\ \/ outcome' # outcome
       \/ failure' # failure
       \/ closures' # closures
       \/ lookup' # lookup

\* C13, amended: every host failure reaches the caller in the call that met
\* it, as a panic, or, for a registration the host refuses, as the Err that
\* set_timeout and set_interval return; a failed call makes one attempt and
\* leaves no registration, no handle, no element and no result behind.
C13_FailureSurfaced ==
    [][/\ failure' \in {"no_window", "invalid_tag", "invalid_selector"}
            => outcome' = "panic"
       /\ failure' = "refused" => outcome' \in {"err", "panic"}
       /\ outcome' = "err" => (failure' = "refused" /\ window)
       /\ FailedCall =>
            /\ regs' = regs
            /\ nextId' = nextId
            /\ handles' = handles
            /\ created' = created
            /\ lookup'.res = None
            /\ Len(closures') <= Len(closures) + 1
            /\ failure' # "refused" => closures' = closures]_vars

\* set_timeout or set_interval has returned Err for a registration the host
\* refused, after an element was created and a first registration accepted.
C13_Witness ==
    /\ window
    /\ failure = "refused"
    /\ outcome = "err"
    /\ created >= 1
    /\ Len(regs) = 1
    /\ Len(closures) = 2

\* Handler k ran in this step.
Ran(k) == k \in DOMAIN invoked /\ invoked'[k] # invoked[k]

C21_StopKeepsIdentifier ==
    [][/\ \A h \in DOMAIN handles :
            /\ h \in DOMAIN handles'
            /\ handles'[h] = handles[h]
       /\ \A h \in DOMAIN handles' :
            h \notin DOMAIN handles => handles'[h].id = Len(regs')
       /\ \A h \in DOMAIN handles :
            StopStep(h) => (outcome' = "ok" /\ nextId' = nextId)]_vars

\* A Timeout and an Interval, started in this order, were each stopped more
\* than once and hold the identifiers 1 and 2.
C21_Witness ==
    /\ Len(handles) = 2
    /\ handles[1] = [kind |-> "Timeout", id |-> 1]
    /\ handles[2] = [kind |-> "Interval", id |-> 2]
    /\ stops = <<"again", "again">>

\* The registration kind behind each kind of handle.
KindOf(h) == IF handles[h].kind = "Timeout" THEN "timeout" ELSE "interval"

C23_NoCoalescing ==
    /\ \A g, h \in DOMAIN handles :
          g # h => /\ handles[g].id # handles[h].id
                   /\ handles[g].id \in DOMAIN regs
                   /\ handles[h].id \in DOMAIN regs
                   /\ CbOf(g) # CbOf(h)
    /\ Cardinality({handles[h].id : h \in DOMAIN handles}) = Len(handles)
    /\ Len(regs) = Len(handles)
    /\ \A h \in DOMAIN handles :
          (/\ handles[h].kind = "Timeout"
           /\ stops[h] = "never"
           /\ handles[h].id \in DOMAIN regs
           /\ RegOf(h).st = "fired") => invoked[CbOf(h)] = 1

\* Two one-shot timers started at the same instant with the same delay, never
\* stopped: both fired, two invocations in total.
C23_Witness ==
    /\ now = 0
    /\ Len(handles) = 2
    /\ \A h \in {1, 2} :
          /\ handles[h].kind = "Timeout"
          /\ stops[h] = "never"
          /\ RegOf(h).st = "fired"
    /\ handles[1].id # handles[2].id
    /\ invoked = <<1, 1>>

\* ---------------------------------------------------------------------- C24

\* The host's cancellation that belongs to a handle's kind.
CancelOf(h) ==
    [fn  |-> IF handles[h].kind = "Timeout" THEN "clearTimeout"
                                            ELSE "clearInterval",
     arg |-> handles[h].id]

\* C24: stop issues the cancellation that matches the handle's kind with the
\* handle's own identifier and no other scheduler call.  A stop on a Timeout
\* issues exactly one clearTimeout(timeout_id), a stop on an Interval exactly
\* one clearInterval(interval_id); the step registers nothing, wraps no
\* handler, runs none, and leaves every other registration as it was.
C24_StopIssuesOwnCancel ==
    [][\A h \in DOMAIN handles :
         StopStep(h) =>
           /\ cancels'[h] = <<CancelOf(h)>>
           /\ \A g \in DOMAIN handles : g # h => cancels'[g] = cancels[g]
           /\ DOMAIN regs' = DOMAIN regs
           /\ \A id \in DOMAIN regs :
                 id # handles[h].id => regs'[id] = regs[id]
           /\ nextId' = nextId
           /\ closures' = closures
           /\ by' = by
           /\ invoked' = invoked]_vars

\* A Timeout and an Interval, each stopped: one clearTimeout with the first
\* handle's identifier, one clearInterval with the second's.
C24_Witness ==
    /\ Len(handles) = 2
    /\ handles[1].kind = "Timeout"
    /\ handles[2].kind = "Interval"
    /\ stops = <<"once", "once">>
    /\ cancels = << <<[fn |-> "clearTimeout", arg |-> handles[1].id]>>,
                    <<[fn |-> "clearInterval", arg |-> handles[2].id]>> >>

\* ---------------------------------------------------------------------- C25

\* The host invokes the handler of registration id in this step.
Invokes(id) ==
    /\ Pending(id)
    /\ regs'[id] # regs[id]
    /\ regs'[id].st # "cleared"

\* C25: the handler registered by set_timeout / set_interval is alive whenever
\* the host may invoke it.  Every registration in the host's timer map points
\* at a handler whose storage has not been released, and every step in which
\* the host invokes a handler, each repeated firing of an interval included,
\* finds it alive and runs it.
C25_HandlerAliveWhenInvoked ==
    [][/\ \A id \in DOMAIN regs' :
            regs'[id].st = "pending" =>
              /\ regs'[id].cb \in DOMAIN closures'
              /\ closures'[regs'[id].cb] = "forgotten"
       /\ \A id \in DOMAIN regs :
            Invokes(id) =>
              /\ closures[regs[id].cb] = "forgotten"
              /\ closures'[regs[id].cb] = "forgotten"
              /\ invoked'[regs[id].cb] = invoked[regs[id].cb] + 1]_vars

\* An interval that has fired twice and is still registered, next to a
\* one-shot timer that has fired.
C25_Witness ==
    \E a, b \in DOMAIN regs :
      /\ regs[a].kind = "interval"
      /\ regs[a].st = "pending"
      /\ invoked[regs[a].cb] >= 2
      /\ closures[regs[a].cb] = "forgotten"
      /\ regs[b].kind = "timeout"
      /\ regs[b].st = "fired"
      /\ invoked[regs[b].cb] = 1

\* ---------------------------------------------------------------------- C26

\* The vector filled by probing one collection handle at 0, 1, 2, ... until
\* item() answers None.
RECURSIVE ProbeHandle(_, _)
ProbeHandle(h, n) ==
    IF item(h, n).some
      THEN <<item(h, n).val>> \o ProbeHandle(h, n + 1)
      ELSE <<>>

\* C26: a materialize pass over a collection of N items issues the host query
\* N + 1 times, once for every probe, and its result equals that of querying
\* once and probing the one handle.  Every evaluation of the loop condition
\* issues one more query; a pass that returns has issued as many queries as
\* it made probes, one more than the collection has items.
C26_QueryPerProbe ==
    [][/\ (mpc = "loop" /\ document) => queries' = queries + 1
       /\ Returns =>
            /\ queries' = Len(Contents(Queried)) + 1
            /\ queries' = Len(probes')
            /\ Contents(ret)' = ProbeHandle(Queried, 0)]_vars

\* A pass over three matching elements has returned them after four queries.
C26_Witness ==
    /\ mpc = "idle"
    /\ outcome = "ok"
    /\ mq.kind = "selector"
    /\ Len(ret.items) = 3
    /\ ret.items = Matching(doc, className, mq.cls)
    /\ queries = 4

\* ---------------------------------------------------------------------- C27

\* A call has wrapped a handler in this step; Caller is the function called.
Wraps  == Len(by') = Len(by) + 1
Caller == by'[Len(by')]

\* C27: set_timeout and set_interval hand a registration refused by the host
\* back to their caller as an Err value and do not panic; they panic only
\* when there is no window.  Timeout::start and Interval::start turn the Err
\* into a panic and return no handle.  An accepted registration ends
\* normally in all four.
C27_RefusalIsErrThenPanic ==
    [][/\ ~window => outcome' = "panic" /\ by' = by
       /\ Wraps =>
            /\ window
            /\ failure' \in {"none", "refused"}
            /\ failure' = "none" => outcome' = "ok"
            /\ (failure' = "refused" /\ Caller \in {"set_timeout", "set_interval"})
                 => outcome' = "err"
            /\ (failure' = "refused"
                  /\ Caller \in {"Timeout::start", "Interval::start"})
                 => outcome' = "panic" /\ handles' = handles
            /\ failure' = "refused" => regs' = regs /\ nextId' = nextId
            /\ (outcome' = "panic")
                 <=> (failure' = "refused"
                       /\ Caller \in {"Timeout::start", "Interval::start"})]_vars

\* The host has refused a registration made through set_interval, which
\* returned, and then one made through Timeout::start, which panicked.
C27_Witness ==
    /\ window
    /\ by = <<"set_interval", "Timeout::start">>
    /\ regs = <<>>
    /\ handles = <<>>
    /\ failure = "refused"
    /\ outcome = "panic"

\* ---------------------------------------------------------------------- C28

\* The handlers whose storage is retained.
Retained == {k \in DOMAIN closures : closures[k] = "forgotten"}

\* C28: handlers are never released.  Every call that reached the host's
\* registration has its handler retained, whether the host accepted or
\* refused it, whether the timer has fired or was stopped: the retained
\* handlers are as many as those calls, each step that wraps a handler adds
\* one, and no step takes one away.
C28_HandlersNeverReleased ==
    [][/\ Retained \subseteq Retained'
       /\ Retained' = DOMAIN closures'
       /\ Cardinality(Retained') = Len(by')
       /\ Wraps <=> Cardinality(Retained') = Cardinality(Retained) + 1
       /\ ~Wraps => Retained' = Retained]_vars

\* Two handlers retained: one of a one-shot timer that fired and was stopped
\* afterwards, one whose registration the host refused.
C28_Witness ==
    /\ by = <<"Timeout::start", "Timeout::start">>
    /\ Len(regs) = 1
    /\ regs[1].st = "fired"
    /\ invoked[regs[1].cb] = 1
    /\ stops = <<"once">>
    /\ Retained = {1, 2}

\* ---------------------------------------------------------------------- C29

\* A step that adds a handle without wrapping a handler: a clone.
CloneStep == Len(handles') = Len(handles) + 1 /\ ~Wraps

\* The handles other than h that hold h's identifier.
Copies(h) == {g \in DOMAIN handles : g # h /\ handles[g].id = handles[h].id}

\* C29: cloning a Timeout creates no host registration.  The clone step
\* leaves the scheduler and the handlers as they are and the new handle holds
\* the identifier of an existing one; a stop through any copy cancels the one
\* registration they share; a stop through a copy after another copy was
\* stopped changes nothing.
C29_CloneSharesRegistration ==
    [][/\ CloneStep =>
            /\ regs' = regs
            /\ nextId' = nextId
            /\ closures' = closures
            /\ invoked' = invoked
            /\ \E g \in DOMAIN handles :
                 /\ handles[g].kind = "Timeout"
                 /\ handles'[Len(handles')] = handles[g]
                 /\ handles'[Len(handles')].id \in DOMAIN regs
       /\ \A h \in DOMAIN handles :
            StopStep(h) =>
              /\ outcome' = "ok"
              /\ cancels'[h] = <<CancelOf(h)>>
              /\ Pending(handles[h].id) => RegOf(h)'.st = "cleared"
              /\ ~Pending(handles[h].id)'
              /\ (\E g \in Copies(h) : stops[g] # "never") => HostUntouched
       /\ \A h \in DOMAIN handles :
            (\E g \in Copies(h) \cup {h} : stops[g] # "never")
              => invoked'[CbOf(h)] = invoked[CbOf(h)]]_vars

\* A Timeout and its clone share registration 1; it was cancelled while
\* pending and stop has been called through both copies.
C29_Witness ==
    /\ Len(handles) = 2
    /\ handles[1] = [kind |-> "Timeout", id |-> 1]
    /\ handles[2] = handles[1]
    /\ Len(regs) = 1
    /\ regs[1].st = "cleared"
    /\ invoked = <<0>>
    /\ stops = <<"once", "once">>

====
